---------------------------- MODULE Spec2Model ----------------------------
(***************************************************************************)
(* A model of src/src/html_file.rs: the HtmlElement trait and its four     *)
(* implementors, the recursive serializer render_element, the document     *)
(* builder and save_html.                                                  *)
(*                                                                         *)
(* A Rust String is a sequence of one-character strings.  Option<T> is a   *)
(* sequence of length 0 (None) or 1 (Some).  A HashMap is a record of its  *)
(* hasher (the per-instance RandomState, which fixes the iteration order)  *)
(* and its table.                                                          *)
(***************************************************************************)
EXTENDS Naturals, Sequences, FiniteSets, TLC

VARIABLES
  input, op, output,      \* one string, the operation applied to it, and its result
  node, calls, rendered,  \* one element, the builder calls made on it, its last rendering
  stack, treeOut,         \* elements being nested into a tree, and the last rendering
  left, right, twinOut,   \* the same builder calls made twice, and the two renderings
  doc, built,             \* a document builder, and the document it built
  fs, saved               \* the filesystem, and what the last save_html returned

leafVars == <<input, op, output>>
nodeVars == <<node, calls, rendered>>
treeVars == <<stack, treeOut>>
twinVars == <<left, right, twinOut>>
docVars == <<doc, built>>
saveVars == <<fs, saved>>
vars == <<input, op, output, node, calls, rendered, stack, treeOut, left, right, twinOut, doc, built, fs, saved>>

----------------------------------------------------------------------------
(* Bounds and input sets *)

\* longest input string of the pure-function specification
MaxLen == 3

\* the five HTML-significant characters and one ordinary character
Alphabet == {"a", "<", ">", "&", "\"", "'"}

StringsUpTo(n) == UNION {[1..k -> Alphabet] : k \in 0..n}

\* most builder calls made on one element after its constructor
MaxCalls == 4

\* most elements, nested or not, built at one time
MaxNodes == 4

\* the strings callers pass to the element builders: a harmless one and one
\* made of markup characters
UserStrings == {<<"a">>, <<"<", "\"", "&">>}

\* the string callers pass when nesting elements: markup characters
TreeStrings == {<<"<", "\"", "&">>}

\* most elements, meta tags, stylesheets and scripts added to one document
MaxAdded == 5

\* the string callers pass to the document builder: markup characters
DocStrings == {<<"<", "\"", "&">>}

\* the names callers give a meta tag
MetaNames == {<<"c", "h", "a", "r", "s", "e", "t">>, <<"a">>}

\* the string callers pass when the same calls are made twice
TwinStrings == {<<"a">>}

\* the tags callers give a Container
Tags == {<<"d", "i", "v">>, <<"p">>}

----------------------------------------------------------------------------
(* Option and string helpers *)

None == <<>>
Some(x) == <<x>>
is_some(o) == o # <<>>
unwrap_or_default(o) == IF o = <<>> THEN <<>> ELSE o[1]

RECURSIVE join(_, _)
\* Vec<String>::join(sep)
join(ss, sep) ==
  IF ss = <<>> THEN <<>>
  ELSE IF Len(ss) = 1 THEN ss[1]
  ELSE ss[1] \o sep \o join(Tail(ss), sep)

\* whether needle occurs in hay as a contiguous substring (str::contains)
contains(hay, needle) ==
  \E i \in 0..Len(hay) :
     /\ i + Len(needle) <= Len(hay)
     /\ \A j \in 1..Len(needle) : hay[i + j] = needle[j]

\* whether s has needle at offset i (0-based)
HasAt(s, i, needle) ==
  /\ i + Len(needle) <= Len(s)
  /\ \A j \in 1..Len(needle) : s[i + j] = needle[j]

HasChar(s, c) == \E i \in 1..Len(s) : s[i] = c

----------------------------------------------------------------------------
(* Escaping *)

\* what html_escape::encode_text writes for one character
EncodeTextChar(c) ==
  CASE c = "&" -> <<"&", "a", "m", "p", ";">>
    [] c = "<" -> <<"&", "l", "t", ";">>
    [] c = ">" -> <<"&", "g", "t", ";">>
    [] OTHER -> <<c>>

RECURSIVE encode_text(_)
encode_text(s) ==
  IF s = <<>> THEN <<>> ELSE EncodeTextChar(Head(s)) \o encode_text(Tail(s))

encode_attribute(s) == encode_text(s)

RECURSIVE ReplaceApostrophe(_)
\* str::replace('\'', "&#x27;")
ReplaceApostrophe(s) ==
  IF s = <<>> THEN <<>>
  ELSE (IF Head(s) = "'" THEN <<"&", "#", "x", "2", "7", ";">> ELSE <<Head(s)>>)
       \o ReplaceApostrophe(Tail(s))

----------------------------------------------------------------------------
(* HashMap<String, String> *)

\* the keys callers use for extra attributes
Keys == {<<"x">>, <<"y">>}

\* an iteration order over all keys: what one hasher instance fixes
KeyOrders ==
  {p \in [1..Cardinality(Keys) -> Keys] : \A k \in Keys : \E i \in DOMAIN p : p[i] = k}

HashMapNew(h) == [hasher |-> h, table |-> <<>>]

HashMapInsert(m, k, v) ==
  [m EXCEPT !.table = [x \in (DOMAIN m.table) \cup {k} |-> IF x = k THEN v ELSE m.table[x]]]

RECURSIVE IterFrom(_, _)
IterFrom(order, table) ==
  IF order = <<>> THEN <<>>
  ELSE (IF Head(order) \in DOMAIN table
          THEN <<(<<Head(order), table[Head(order)]>>)>> ELSE <<>>)
       \o IterFrom(Tail(order), table)

\* an iteration that starts after the first bucket
HashMapIterSkipFirst(m) == IterFrom(Tail(m.hasher), m.table)

\* the (key, value) pairs in the order `for (key, value) in &map` visits them
HashMapIter(m) == IterFrom(m.hasher, m.table)

HashMapLen(m) == Cardinality(DOMAIN m.table)

----------------------------------------------------------------------------
(* The four element types and their builders *)

TextElementNew(content) == [kind |-> "TextElement", content |-> content]

RawHtmlNew(content) == [kind |-> "RawHtml", content |-> content]

ImageElementNew(src, h) ==
  [kind |-> "ImageElement", src |-> src, alt |-> None, attributes |-> HashMapNew(h)]

ImageWithAlt(e, alt) == [e EXCEPT !.alt = Some(alt)]

ImageWithAttribute(e, k, v) == [e EXCEPT !.attributes = HashMapInsert(@, k, v)]

ContainerElementNew(tag, h) ==
  [kind |-> "ContainerElement", tag |-> tag, attributes |-> HashMapNew(h),
   children |-> <<>>, classes |-> <<>>, id |-> None]

ContainerWithAttribute(e, k, v) == [e EXCEPT !.attributes = HashMapInsert(@, k, v)]

with_child(e, child) == [e EXCEPT !.children = Append(@, child)]

with_class(e, class) == [e EXCEPT !.classes = Append(@, class)]

with_id(e, id) == [e EXCEPT !.id = Some(id)]

with_text(e, text) == with_child(e, TextElementNew(text))

\* any other implementor of the trait: it reports what its fields hold
CustomElement(tag, attrs, text, children, void) ==
  [kind |-> "Custom", tag |-> tag, attrs |-> attrs, text |-> text,
   children |-> children, is_void |-> void]

----------------------------------------------------------------------------
(* The trait's accessors, per implementor *)

\* text() that stops after the baseline escaping
TextElementTextNoReplace(e) == Some(encode_text(e.content))

TextElementText(e) == Some(ReplaceApostrophe(encode_text(e.content)))

RECURSIVE EncodeValues(_)
\* each pair with its value passed through encode_attribute
EncodeValues(pairs) ==
  IF pairs = <<>> THEN <<>>
  ELSE <<(<<Head(pairs)[1], encode_attribute(Head(pairs)[2])>>)>> \o EncodeValues(Tail(pairs))

RECURSIVE EncodeBoth(_)
\* each pair with key and value passed through encode_attribute
EncodeBoth(pairs) ==
  IF pairs = <<>> THEN <<>>
  ELSE <<(<<encode_attribute(Head(pairs)[1]), encode_attribute(Head(pairs)[2])>>)>>
       \o EncodeBoth(Tail(pairs))

ImageAttributes(e) ==
  Some(<<(<<(<<"s", "r", "c">>), encode_attribute(e.src)>>)>>
       \o (IF is_some(e.alt)
             THEN <<(<<(<<"a", "l", "t">>), encode_attribute(e.alt[1])>>)>> ELSE <<>>)
       \o EncodeValues(HashMapIter(e.attributes)))

\* attributes() that pushes the class list before the id
ContainerAttributesClassFirst(e) ==
  LET result ==
        (IF e.classes # <<>>
           THEN <<(<<(<<"c", "l", "a", "s", "s">>),
                    encode_attribute(join(e.classes, <<" ">>))>>)>>
           ELSE <<>>)
        \o (IF is_some(e.id) THEN <<(<<(<<"i", "d">>), encode_attribute(e.id[1])>>)>> ELSE <<>>)
        \o EncodeBoth(HashMapIter(e.attributes))
  IN IF result = <<>> THEN None ELSE Some(result)

ContainerAttributes(e) ==
  LET result ==
        (IF is_some(e.id) THEN <<(<<(<<"i", "d">>), encode_attribute(e.id[1])>>)>> ELSE <<>>)
        \o (IF e.classes # <<>>
              THEN <<(<<(<<"c", "l", "a", "s", "s">>),
                       encode_attribute(join(e.classes, <<" ">>))>>)>>
              ELSE <<>>)
        \o EncodeBoth(HashMapIter(e.attributes))
  IN IF result = <<>> THEN None ELSE Some(result)

tag(e) ==
  CASE e.kind = "TextElement" -> <<"s", "p", "a", "n">>
    [] e.kind = "RawHtml" -> <<>>
    [] e.kind = "ImageElement" -> <<"i", "m", "g">>
    [] e.kind = "ContainerElement" -> e.tag
    [] e.kind = "Custom" -> e.tag

attributes(e) ==
  CASE e.kind = "TextElement" -> None
    [] e.kind = "RawHtml" -> None
    [] e.kind = "ImageElement" -> ImageAttributes(e)
    [] e.kind = "ContainerElement" -> ContainerAttributes(e)
    [] e.kind = "Custom" -> e.attrs

text(e) ==
  CASE e.kind = "TextElement" -> TextElementText(e)
    [] e.kind = "RawHtml" -> Some(e.content)
    [] e.kind = "ImageElement" -> None
    [] e.kind = "ContainerElement" -> None
    [] e.kind = "Custom" -> e.text

children(e) ==
  CASE e.kind = "ContainerElement" -> e.children
    [] e.kind = "Custom" -> e.children
    [] OTHER -> <<>>

is_void_element(e) ==
  CASE e.kind = "TextElement" -> FALSE
    [] e.kind = "RawHtml" -> TRUE
    [] e.kind = "ImageElement" -> TRUE
    [] e.kind = "ContainerElement" -> FALSE
    [] e.kind = "Custom" -> e.is_void

----------------------------------------------------------------------------
(* The serializer *)

RECURSIVE FormatAttrs(_)
\* one ` key="value"` per pair, in order
FormatAttrs(pairs) ==
  IF pairs = <<>> THEN <<>>
  ELSE <<" ">> \o Head(pairs)[1] \o <<"=", "\"">> \o Head(pairs)[2] \o <<"\"">>
       \o FormatAttrs(Tail(pairs))

\* the opening tag up to, not including, its end
OpenTag(e) ==
  <<"<">> \o tag(e)
  \o (IF is_some(attributes(e)) THEN FormatAttrs(attributes(e)[1]) ELSE <<>>)

CloseTag(e) == <<"<", "/">> \o tag(e) \o <<">">>

RECURSIVE render_element(_)
RECURSIVE RenderAll(_)
\* the loop over the children run from the last child to the first
RenderAllReversed(es) ==
  IF es = <<>> THEN <<>>
  ELSE render_element(es[Len(es)]) \o RenderAll(SubSeq(es, 1, Len(es) - 1))

\* the children's renderings, concatenated in order
RenderAll(es) ==
  IF es = <<>> THEN <<>> ELSE render_element(Head(es)) \o RenderAll(Tail(es))

\* the serializer treating a void element like any other
RenderElementNoVoidCase(e) ==
  IF tag(e) = <<>> /\ is_void_element(e) THEN unwrap_or_default(text(e))
  ELSE OpenTag(e) \o <<">">>
       \o (IF is_some(text(e)) THEN text(e)[1] ELSE <<>>)
       \o RenderAll(children(e))
       \o CloseTag(e)

\* the serializer without its raw-HTML special case
RenderElementNoRawCase(e) ==
  IF is_void_element(e) THEN OpenTag(e) \o <<" ", "/", ">">>
  ELSE OpenTag(e) \o <<">">>
       \o (IF is_some(text(e)) THEN text(e)[1] ELSE <<>>)
       \o RenderAll(children(e))
       \o CloseTag(e)

render_element(e) ==
  IF tag(e) = <<>> /\ is_void_element(e) THEN unwrap_or_default(text(e))
  ELSE IF is_void_element(e) THEN OpenTag(e) \o <<" ", "/", ">">>
  ELSE OpenTag(e) \o <<">">>
       \o (IF is_some(text(e)) THEN text(e)[1] ELSE <<>>)
       \o RenderAll(children(e))
       \o CloseTag(e)

\* the trait's render(): RawHtml overrides it, the others inherit the default
render(e) == IF e.kind = "RawHtml" THEN e.content ELSE render_element(e)

----------------------------------------------------------------------------
(* HtmlDocumentBuilder *)

DOCTYPE == <<"<", "!", "D", "O", "C", "T", "Y", "P", "E", " ", "h", "t", "m", "l", ">">>
NL == <<"\n">>
CHARSET == <<"c", "h", "a", "r", "s", "e", "t">>
UTF8 == <<"U", "T", "F", "-", "8">>

HtmlDocumentBuilderNew(h) ==
  [doctype |-> DOCTYPE, title |-> None, head_elements |-> <<>>, body_elements |-> <<>>,
   lang |-> Some(<<"e", "n">>), meta_tags |-> <<(<<CHARSET, UTF8>>)>>,
   stylesheets |-> <<>>, scripts |-> <<>>, body_attributes |-> HashMapNew(h)]

title(d, t) == [d EXCEPT !.title = Some(t)]
add_head_element(d, e) == [d EXCEPT !.head_elements = Append(@, e)]
add_body_element(d, e) == [d EXCEPT !.body_elements = Append(@, e)]
lang(d, l) == [d EXCEPT !.lang = Some(l)]
add_meta(d, name, content) == [d EXCEPT !.meta_tags = Append(@, <<name, content>>)]
add_stylesheet(d, href) == [d EXCEPT !.stylesheets = Append(@, href)]
add_script(d, src) == [d EXCEPT !.scripts = Append(@, src)]
add_body_attribute(d, name, value) == [d EXCEPT !.body_attributes = HashMapInsert(@, name, value)]

\* "\n<html lang=\"{}\">" or "\n<html>", then '\n'
HtmlOpen(d) ==
  (IF is_some(d.lang)
     THEN NL \o <<"<", "h", "t", "m", "l", " ", "l", "a", "n", "g", "=", "\"">>
          \o encode_attribute(d.lang[1]) \o <<"\"", ">">>
     ELSE NL \o <<"<", "h", "t", "m", "l", ">">>)
  \o NL

MetaTag(pair) ==
  IF pair[1] = CHARSET
    THEN <<"<", "m", "e", "t", "a", " ">> \o CHARSET \o <<"=", "\"">>
         \o encode_attribute(pair[2]) \o <<"\"", ">">> \o NL
    ELSE <<"<", "m", "e", "t", "a", " ", "n", "a", "m", "e", "=", "\"">>
         \o encode_attribute(pair[1])
         \o <<"\"", " ", "c", "o", "n", "t", "e", "n", "t", "=", "\"">>
         \o encode_attribute(pair[2]) \o <<"\"", ">">> \o NL

RECURSIVE MetaTags(_)
MetaTags(ps) == IF ps = <<>> THEN <<>> ELSE MetaTag(Head(ps)) \o MetaTags(Tail(ps))

TitleTag(d) ==
  IF is_some(d.title)
    THEN <<"<", "t", "i", "t", "l", "e", ">">> \o encode_text(d.title[1])
         \o <<"<", "/", "t", "i", "t", "l", "e", ">">> \o NL
    ELSE <<>>

StylesheetTag(href) ==
  <<"<", "l", "i", "n", "k", " ", "r", "e", "l", "=", "\"",
    "s", "t", "y", "l", "e", "s", "h", "e", "e", "t", "\"", " ", "h", "r", "e", "f", "=", "\"">>
  \o encode_attribute(href) \o <<"\"", ">">> \o NL

RECURSIVE StylesheetTags(_)
StylesheetTags(hs) ==
  IF hs = <<>> THEN <<>> ELSE StylesheetTag(Head(hs)) \o StylesheetTags(Tail(hs))

RECURSIVE ElementLines(_)
\* each element rendered by the serializer and followed by '\n'
ElementLines(es) ==
  IF es = <<>> THEN <<>> ELSE render_element(Head(es)) \o NL \o ElementLines(Tail(es))

BodyOpen(d) ==
  <<"<", "b", "o", "d", "y">> \o FormatAttrs(EncodeBoth(HashMapIter(d.body_attributes)))
  \o <<">">> \o NL

ScriptTag(src) ==
  <<"<", "s", "c", "r", "i", "p", "t", " ", "s", "r", "c", "=", "\"">>
  \o encode_attribute(src)
  \o <<"\"", ">", "<", "/", "s", "c", "r", "i", "p", "t", ">">> \o NL

RECURSIVE ScriptTags(_)
ScriptTags(ss) == IF ss = <<>> THEN <<>> ELSE ScriptTag(Head(ss)) \o ScriptTags(Tail(ss))

HEAD_OPEN == <<"<", "h", "e", "a", "d", ">">> \o NL
HEAD_CLOSE == <<"<", "/", "h", "e", "a", "d", ">">> \o NL
DOC_CLOSE == <<"<", "/", "b", "o", "d", "y", ">">> \o NL \o <<"<", "/", "h", "t", "m", "l", ">">>

\* build() writing the title before the meta tags
BuildTitleFirst(d) ==
  d.doctype \o HtmlOpen(d)
  \o HEAD_OPEN
  \o TitleTag(d) \o MetaTags(d.meta_tags) \o StylesheetTags(d.stylesheets)
  \o ElementLines(d.head_elements)
  \o HEAD_CLOSE
  \o BodyOpen(d) \o ElementLines(d.body_elements) \o ScriptTags(d.scripts)
  \o DOC_CLOSE

build(d) ==
  d.doctype \o HtmlOpen(d)
  \o HEAD_OPEN
  \o MetaTags(d.meta_tags) \o TitleTag(d) \o StylesheetTags(d.stylesheets)
  \o ElementLines(d.head_elements)
  \o HEAD_CLOSE
  \o BodyOpen(d) \o ElementLines(d.body_elements) \o ScriptTags(d.scripts)
  \o DOC_CLOSE

----------------------------------------------------------------------------
(* Initial values of the variables a specification does not use *)

NoLeaf == input = <<>> /\ op = "none" /\ output = <<>>
NoNode == node = None /\ calls = <<>> /\ rendered = None
NoTree == stack = <<>> /\ treeOut = None
NoTwin == left = None /\ right = None /\ twinOut = None
NoDoc == doc = None /\ built = None
NoSave == fs = None /\ saved = None

----------------------------------------------------------------------------
(* SpecLeaf: the escaping routines and the leaf elements, on every string *)
(* of at most MaxLen characters                                            *)

DIV == <<"d", "i", "v">>

LeafInit ==
  /\ input \in StringsUpTo(MaxLen)
  /\ op = "none"
  /\ output = <<>>
  /\ NoNode /\ NoTree /\ NoTwin /\ NoDoc /\ NoSave

LeafApply(name, result) ==
  /\ op = "none"
  /\ op' = name
  /\ output' = result
  /\ UNCHANGED <<input, nodeVars, treeVars, twinVars, docVars, saveVars>>

LeafEncodeAttribute == LeafApply("encode_attribute", encode_attribute(input))

LeafTextRender == LeafApply("text_render", render(TextElementNew(input)))

LeafRawRender == LeafApply("raw_render", render(RawHtmlNew(input)))

LeafRawRenderElement == LeafApply("raw_render_element", render_element(RawHtmlNew(input)))

LeafRawChild ==
  \E h \in KeyOrders :
    LeafApply("raw_child",
              render_element(with_child(ContainerElementNew(DIV, h), RawHtmlNew(input))))

LeafRawHead ==
  \E h \in KeyOrders :
    LeafApply("raw_head", build(add_head_element(HtmlDocumentBuilderNew(h), RawHtmlNew(input))))

LeafRawBody ==
  \E h \in KeyOrders :
    LeafApply("raw_body", build(add_body_element(HtmlDocumentBuilderNew(h), RawHtmlNew(input))))

LeafNext ==
  \/ LeafEncodeAttribute
  \/ LeafTextRender
  \/ LeafRawRender
  \/ LeafRawRenderElement
  \/ LeafRawChild
  \/ LeafRawHead
  \/ LeafRawBody

SpecLeaf == LeafInit /\ [][LeafNext]_vars

----------------------------------------------------------------------------
(* Claims checked under SpecLeaf *)

Special == {"<", ">", "&", "\"", "'"}

Entities ==
  {<<"&", "a", "m", "p", ";">>, <<"&", "l", "t", ";">>, <<"&", "g", "t", ";">>,
   <<"&", "q", "u", "o", "t", ";">>, <<"&", "#", "x", "2", "7", ";">>,
   <<"&", "#", "3", "9", ";">>}

\* position i of s lies inside an entity sequence
InEntity(s, i) ==
  \E ent \in Entities : \E k \in 0..(i - 1) : HasAt(s, k, ent) /\ i <= k + Len(ent)

NoLiteralSpecial(s) == \A i \in 1..Len(s) : s[i] \in Special => InEntity(s, i)

\* C2: the result of the escaping primitive holds none of < > & " ' outside
\* an entity sequence
C2_EscapedHasNoLiteralSpecial ==
  op = "encode_attribute" => NoLiteralSpecial(output)

SPAN_OPEN == <<"<", "s", "p", "a", "n", ">">>
SPAN_CLOSE == <<"<", "/", "s", "p", "a", "n", ">">>

\* C3: a Text node renders as <span>e</span>, e the input escaped once and
\* then its apostrophes replaced by &#x27;, so e holds no < > or apostrophe
C3_TextRendersEscapedSpan ==
  op = "text_render" =>
    /\ output = SPAN_OPEN \o ReplaceApostrophe(encode_text(input)) \o SPAN_CLOSE
    /\ LET e == SubSeq(output, Len(SPAN_OPEN) + 1, Len(output) - Len(SPAN_CLOSE))
       IN ~HasChar(e, "<") /\ ~HasChar(e, ">") /\ ~HasChar(e, "'")

C3_Witness ==
  op = "text_render" /\ HasChar(input, "'") /\ HasChar(input, "<") /\ HasChar(input, "&")

DocUpToHeadElements ==
  <<"<", "!", "D", "O", "C", "T", "Y", "P", "E", " ", "h", "t", "m", "l", ">", "\n", "<",
    "h", "t", "m", "l", " ", "l", "a", "n", "g", "=", "\"", "e", "n", "\"", ">", "\n",
    "<", "h", "e", "a", "d", ">", "\n", "<", "m", "e", "t", "a", " ", "c", "h", "a", "r",
    "s", "e", "t", "=", "\"", "U", "T", "F", "-", "8", "\"", ">", "\n">>

DocHeadToBody ==
  <<"<", "/", "h", "e", "a", "d", ">", "\n", "<", "b", "o", "d", "y", ">", "\n">>

DocEnd ==
  <<"<", "/", "b", "o", "d", "y", ">", "\n", "<", "/", "h", "t", "m", "l", ">">>

\* C4: a Raw node renders as its content, unchanged: by its own render(), by
\* the serializer, as a child of a Container, and as a head or body element
C4_RawIsVerbatim ==
  /\ op \in {"raw_render", "raw_render_element"} => output = input
  /\ op = "raw_child" => output = <<"<", "d", "i", "v", ">">> \o input
                                  \o <<"<", "/", "d", "i", "v", ">">>
  /\ op = "raw_head" =>
       output = DocUpToHeadElements \o input \o <<"\n">> \o DocHeadToBody \o DocEnd
  /\ op = "raw_body" =>
       output = DocUpToHeadElements \o DocHeadToBody \o input \o <<"\n">> \o DocEnd

C4_Witness ==
  op = "raw_child" /\ HasChar(input, "<") /\ HasChar(input, ">") /\ HasChar(input, "&")

----------------------------------------------------------------------------
(* Spec: one element built by a chain of builder calls and then rendered *)

\* implementors of the trait other than the four of this file
CustomElements ==
  {CustomElement(t, a, x, c, v) :
     t \in {<<"b", "r">>, <<>>},
     a \in {None, Some(<<(<<(<<"x">>), (<<"a">>)>>)>>)},
     x \in {None, Some(<<"a">>)},
     c \in {<<>>, <<TextElementNew(<<"a">>)>>},
     v \in BOOLEAN}

Call(name, args) == [call |-> name, args |-> args]

NodeInit ==
  /\ node = None
  /\ calls = <<>>
  /\ rendered = None
  /\ NoLeaf /\ NoTree /\ NoTwin /\ NoDoc /\ NoSave

\* a constructor
NodeStart(e) ==
  /\ node = None
  /\ node' = Some(e)
  /\ calls' = <<>>
  /\ rendered' = None
  /\ UNCHANGED <<leafVars, treeVars, twinVars, docVars, saveVars>>

\* a builder call on an element of the given kind
NodeStep(kind, e, c) ==
  /\ is_some(node)
  /\ node[1].kind = kind
  /\ Len(calls) < MaxCalls
  /\ node' = Some(e)
  /\ calls' = Append(calls, c)
  /\ rendered' = None
  /\ UNCHANGED <<leafVars, treeVars, twinVars, docVars, saveVars>>

NodeTextNew == \E s \in UserStrings : NodeStart(TextElementNew(s))

NodeRawNew == \E s \in UserStrings : NodeStart(RawHtmlNew(s))

NodeImageNew == \E s \in UserStrings, h \in KeyOrders : NodeStart(ImageElementNew(s, h))

NodeContainerNew == \E t \in Tags, h \in KeyOrders : NodeStart(ContainerElementNew(t, h))

NodeCustomNew == \E e \in CustomElements : NodeStart(e)

NodeImageWithAlt ==
  \E s \in UserStrings :
    NodeStep("ImageElement", ImageWithAlt(node[1], s), Call("with_alt", <<s>>))

NodeImageWithAttribute ==
  \E k \in Keys, v \in UserStrings :
    NodeStep("ImageElement", ImageWithAttribute(node[1], k, v), Call("with_attribute", <<k, v>>))

NodeContainerWithAttribute ==
  \E k \in Keys, v \in UserStrings :
    NodeStep("ContainerElement", ContainerWithAttribute(node[1], k, v),
             Call("with_attribute", <<k, v>>))

NodeWithClass ==
  \E s \in UserStrings :
    NodeStep("ContainerElement", with_class(node[1], s), Call("with_class", <<s>>))

NodeWithId ==
  \E s \in UserStrings :
    NodeStep("ContainerElement", with_id(node[1], s), Call("with_id", <<s>>))

NodeRender ==
  /\ is_some(node)
  /\ rendered = None
  /\ rendered' = Some(render(node[1]))
  /\ UNCHANGED <<node, calls, leafVars, treeVars, twinVars, docVars, saveVars>>

Next ==
  \/ NodeTextNew
  \/ NodeRawNew
  \/ NodeImageNew
  \/ NodeContainerNew
  \/ NodeCustomNew
  \/ NodeImageWithAlt
  \/ NodeImageWithAttribute
  \/ NodeContainerWithAttribute
  \/ NodeWithClass
  \/ NodeWithId
  \/ NodeRender

Spec == NodeInit /\ [][Next]_vars

----------------------------------------------------------------------------
(* Claims checked under Spec *)

Values(pairs) == {pairs[i][2] : i \in DOMAIN pairs}

\* C1: in the rendering of a Text, Image or Container node no attribute
\* value holds a literal < > or ", and no text content a literal < or >
C1_NoInjection ==
  (is_some(rendered) /\ node[1].kind \in {"TextElement", "ImageElement", "ContainerElement"}) =>
    /\ \A v \in Values(unwrap_or_default(attributes(node[1]))) :
         ~HasChar(v, "<") /\ ~HasChar(v, ">") /\ ~HasChar(v, "\"")
    /\ ~HasChar(unwrap_or_default(text(node[1])), "<")
    /\ ~HasChar(unwrap_or_default(text(node[1])), ">")

CountChar(s, c) == Cardinality({i \in DOMAIN s : s[i] = c})

\* C5: a void node with a tag renders as "<tag", its attribute pairs and
\* " />", whatever text or children it reports
C5_VoidIsSelfClosed ==
  (is_some(rendered) /\ is_void_element(node[1]) /\ tag(node[1]) # <<>>) =>
    /\ rendered[1] = <<"<">> \o tag(node[1])
                     \o FormatAttrs(unwrap_or_default(attributes(node[1])))
                     \o <<" ", "/", ">">>
    /\ CountChar(rendered[1], "<") = 1
    /\ CountChar(rendered[1], ">") = 1

C5_Witness ==
  /\ is_some(rendered)
  /\ node[1].kind = "Custom"
  /\ node[1].is_void /\ node[1].tag # <<>>
  /\ is_some(node[1].text) /\ node[1].children # <<>> /\ is_some(node[1].attrs)

\* the calls of one name, by position
CallsOf(name) == {i \in DOMAIN calls : calls[i].call = name}

Last(S) == CHOOSE i \in S : \A j \in S : j <= i

\* the value the last with_attribute call gave key k
ExtraValue(k) ==
  calls[Last({i \in CallsOf("with_attribute") : calls[i].args[1] = k})].args[2]

ExtraKeys == {calls[i].args[1] : i \in CallsOf("with_attribute")}

RECURSIVE ClassesFrom(_)
\* the arguments of the with_class calls from position i on, in call order
ClassesFrom(i) ==
  IF i > Len(calls) THEN <<>>
  ELSE (IF calls[i].call = "with_class" THEN <<calls[i].args[1]>> ELSE <<>>)
       \o ClassesFrom(i + 1)

RECURSIVE JoinBySpace(_)
JoinBySpace(ss) ==
  IF ss = <<>> THEN <<>>
  ELSE IF Len(ss) = 1 THEN ss[1]
  ELSE ss[1] \o <<" ">> \o JoinBySpace(Tail(ss))

RECURSIVE ExtrasInOrder(_)
\* the extra attributes as written when the map is visited in this order
ExtrasInOrder(order) ==
  IF order = <<>> THEN <<>>
  ELSE (IF Head(order) \in ExtraKeys
          THEN <<" ">> \o encode_attribute(Head(order)) \o <<"=", "\"">>
               \o encode_attribute(ExtraValue(Head(order))) \o <<"\"">>
          ELSE <<>>)
       \o ExtrasInOrder(Tail(order))

\* the attribute section the calls made so far ask for
ExpectedSection(order) ==
  (IF CallsOf("with_id") # {}
     THEN <<" ", "i", "d", "=", "\"">>
          \o encode_attribute(calls[Last(CallsOf("with_id"))].args[1]) \o <<"\"">>
     ELSE <<>>)
  \o (IF CallsOf("with_class") # {}
        THEN <<" ", "c", "l", "a", "s", "s", "=", "\"">>
             \o encode_attribute(JoinBySpace(ClassesFrom(1))) \o <<"\"">>
        ELSE <<>>)
  \o ExtrasInOrder(order)

\* C6: whatever the order of the with_id, with_class and with_attribute
\* calls, the opening tag holds the id, then one class attribute with the
\* classes in call order, then the extra attributes; and nothing, not even a
\* space, when none was set
C6_ContainerAttributeSection ==
  (is_some(rendered) /\ node[1].kind = "ContainerElement") =>
    /\ \E order \in KeyOrders :
         rendered[1] = <<"<">> \o node[1].tag \o ExpectedSection(order) \o <<">">>
                       \o <<"<", "/">> \o node[1].tag \o <<">">>
    /\ calls = <<>> =>
         rendered[1] = <<"<">> \o node[1].tag \o <<">", "<", "/">> \o node[1].tag \o <<">">>

C6_Witness ==
  /\ is_some(rendered)
  /\ node[1].kind = "ContainerElement"
  /\ \E i, j, k \in DOMAIN calls :
       /\ i < j /\ j < k
       /\ calls[i].call = "with_class" /\ calls[j].call = "with_class"
       /\ calls[i].args # calls[j].args
       /\ calls[k].call = "with_id"
  /\ CallsOf("with_attribute") # {}

----------------------------------------------------------------------------
(* SpecTree: elements nested by with_child.  The stack holds the elements   *)
(* of a builder expression under evaluation: every element below the top    *)
(* is a Container waiting for the child being built above it.               *)

RECURSIVE NodeCount(_)
RECURSIVE NodeCountAll(_)
NodeCountAll(es) == IF es = <<>> THEN 0 ELSE NodeCount(Head(es)) + NodeCountAll(Tail(es))
NodeCount(e) == 1 + NodeCountAll(children(e))

Top == stack[Len(stack)]

TreeInit ==
  /\ stack = <<>>
  /\ treeOut = None
  /\ NoLeaf /\ NoNode /\ NoTwin /\ NoDoc /\ NoSave

\* a constructor, at the start or as the argument of a coming with_child
TreePush(e) ==
  /\ NodeCountAll(stack) < MaxNodes
  /\ IF stack = <<>> THEN TRUE ELSE Top.kind = "ContainerElement"
  /\ stack' = Append(stack, e)
  /\ treeOut' = None
  /\ UNCHANGED <<leafVars, nodeVars, twinVars, docVars, saveVars>>

TreeTextNew == \E s \in TreeStrings : TreePush(TextElementNew(s))

TreeRawNew == \E s \in TreeStrings : TreePush(RawHtmlNew(s))

TreeImageNew == \E s \in TreeStrings, h \in KeyOrders : TreePush(ImageElementNew(s, h))

TreeContainerNew == \E t \in Tags, h \in KeyOrders : TreePush(ContainerElementNew(t, h))

\* with_child: the element on top becomes the last child of the one below
TreeWithChild ==
  /\ Len(stack) >= 2
  /\ stack' = [SubSeq(stack, 1, Len(stack) - 1) EXCEPT
                 ![Len(stack) - 1] = with_child(@, Top)]
  /\ treeOut' = None
  /\ UNCHANGED <<leafVars, nodeVars, twinVars, docVars, saveVars>>

TreeWithText ==
  /\ stack # <<>>
  /\ Top.kind = "ContainerElement"
  /\ NodeCountAll(stack) < MaxNodes
  /\ \E s \in TreeStrings : stack' = [stack EXCEPT ![Len(stack)] = with_text(@, s)]
  /\ treeOut' = None
  /\ UNCHANGED <<leafVars, nodeVars, twinVars, docVars, saveVars>>

\* render() on the element the expression evaluated to
TreeRender ==
  /\ Len(stack) = 1
  /\ treeOut = None
  /\ treeOut' = Some(render(Top))
  /\ UNCHANGED <<stack, leafVars, nodeVars, twinVars, docVars, saveVars>>

TreeNext ==
  \/ TreeTextNew
  \/ TreeRawNew
  \/ TreeImageNew
  \/ TreeContainerNew
  \/ TreeWithChild
  \/ TreeWithText
  \/ TreeRender

SpecTree == TreeInit /\ [][TreeNext]_vars

----------------------------------------------------------------------------
(* Claims checked under SpecTree *)

RECURSIVE ChildrenThenClose(_, _, _, _)
\* from offset pos on, s holds the renderings of cs in order and then close,
\* and nothing more
ChildrenThenClose(s, pos, cs, close) ==
  IF cs = <<>> THEN HasAt(s, pos, close) /\ pos + Len(close) = Len(s)
  ELSE /\ HasAt(s, pos, render(Head(cs)))
       /\ ChildrenThenClose(s, pos + Len(render(Head(cs))), Tail(cs), close)

\* C7: the rendering of a Container holds the rendering of each child D, and
\* that of D the rendering of each of its children E, as contiguous
\* substrings; the children stand in the order they were added, between the
\* opening and the closing tag
C7_NestingIsPreserved ==
  (is_some(treeOut) /\ Top.kind = "ContainerElement") =>
    /\ \A i \in DOMAIN Top.children :
         /\ contains(treeOut[1], render(Top.children[i]))
         /\ \A j \in DOMAIN children(Top.children[i]) :
              contains(render(Top.children[i]), render(children(Top.children[i])[j]))
    /\ HasAt(treeOut[1], 0, <<"<">> \o Top.tag \o <<">">>)
    /\ ChildrenThenClose(treeOut[1], Len(Top.tag) + 2, Top.children,
                         <<"<", "/">> \o Top.tag \o <<">">>)

C7_Witness ==
  /\ is_some(treeOut)
  /\ Top.kind = "ContainerElement"
  /\ Len(Top.children) = 2
  /\ Top.children[1].kind = "RawHtml"
  /\ Top.children[2].kind = "ContainerElement"
  /\ Top.children[2].tag # Top.tag
  /\ Len(Top.children[2].children) = 1
  /\ Top.children[2].children[1].kind = "TextElement"

----------------------------------------------------------------------------
(* SpecTwin: the same builder calls made twice.  Each HashMap::new() of     *)
(* either build draws its own hasher.                                       *)

IsDocument(x) == "doctype" \in DOMAIN x

\* what the caller renders: build() of a document, render() of an element
RenderSubject(x) == IF IsDocument(x) THEN build(x) ELSE render(x)

TwinInit ==
  /\ left = None
  /\ right = None
  /\ twinOut = None
  /\ NoLeaf /\ NoNode /\ NoTree /\ NoDoc /\ NoSave

TwinSet(l, r) ==
  /\ left' = Some(l)
  /\ right' = Some(r)
  /\ twinOut' = None
  /\ UNCHANGED <<leafVars, nodeVars, treeVars, docVars, saveVars>>

TwinImageNew ==
  /\ left = None
  /\ \E s \in TwinStrings, hl \in KeyOrders, hr \in KeyOrders :
       TwinSet(ImageElementNew(s, hl), ImageElementNew(s, hr))

TwinContainerNew ==
  /\ left = None
  /\ \E t \in Tags, hl \in KeyOrders, hr \in KeyOrders :
       TwinSet(ContainerElementNew(t, hl), ContainerElementNew(t, hr))

TwinDocumentNew ==
  /\ left = None
  /\ \E hl \in KeyOrders, hr \in KeyOrders :
       TwinSet(HtmlDocumentBuilderNew(hl), HtmlDocumentBuilderNew(hr))

TwinImageWithAlt ==
  /\ is_some(left) /\ ~IsDocument(left[1]) /\ left[1].kind = "ImageElement"
  /\ \E s \in TwinStrings : TwinSet(ImageWithAlt(left[1], s), ImageWithAlt(right[1], s))

TwinImageWithAttribute ==
  /\ is_some(left) /\ ~IsDocument(left[1]) /\ left[1].kind = "ImageElement"
  /\ \E k \in Keys, v \in TwinStrings :
       TwinSet(ImageWithAttribute(left[1], k, v), ImageWithAttribute(right[1], k, v))

TwinContainerWithAttribute ==
  /\ is_some(left) /\ ~IsDocument(left[1]) /\ left[1].kind = "ContainerElement"
  /\ \E k \in Keys, v \in TwinStrings :
       TwinSet(ContainerWithAttribute(left[1], k, v), ContainerWithAttribute(right[1], k, v))

\* ContainerElement::new(t).with_child(image)
TwinWrapImage ==
  /\ is_some(left) /\ ~IsDocument(left[1]) /\ left[1].kind = "ImageElement"
  /\ \E t \in Tags, hl \in KeyOrders, hr \in KeyOrders :
       TwinSet(with_child(ContainerElementNew(t, hl), left[1]),
               with_child(ContainerElementNew(t, hr), right[1]))

\* HtmlDocumentBuilder::new().add_body_element(element)
TwinIntoDocument ==
  /\ is_some(left) /\ ~IsDocument(left[1])
  /\ \E hl \in KeyOrders, hr \in KeyOrders :
       TwinSet(add_body_element(HtmlDocumentBuilderNew(hl), left[1]),
               add_body_element(HtmlDocumentBuilderNew(hr), right[1]))

TwinAddBodyAttribute ==
  /\ is_some(left) /\ IsDocument(left[1])
  /\ \E k \in Keys, v \in TwinStrings :
       TwinSet(add_body_attribute(left[1], k, v), add_body_attribute(right[1], k, v))

TwinRender ==
  /\ is_some(left)
  /\ twinOut = None
  /\ twinOut' = Some(<<RenderSubject(left[1]), RenderSubject(right[1])>>)
  /\ UNCHANGED <<left, right, leafVars, nodeVars, treeVars, docVars, saveVars>>

TwinNext ==
  \/ TwinImageNew
  \/ TwinContainerNew
  \/ TwinDocumentNew
  \/ TwinImageWithAlt
  \/ TwinImageWithAttribute
  \/ TwinContainerWithAttribute
  \/ TwinWrapImage
  \/ TwinIntoDocument
  \/ TwinAddBodyAttribute
  \/ TwinRender

SpecTwin == TwinInit /\ [][TwinNext]_vars

----------------------------------------------------------------------------
(* Claims checked under SpecTwin *)

RECURSIVE MostEntries(_)
RECURSIVE MostEntriesAll(_)
Max(a, b) == IF a >= b THEN a ELSE b

MostEntriesAll(es) ==
  IF es = <<>> THEN 0 ELSE Max(MostEntries(Head(es)), MostEntriesAll(Tail(es)))

\* the size of the largest attribute map in x
MostEntries(x) ==
  IF IsDocument(x)
    THEN Max(HashMapLen(x.body_attributes),
             Max(MostEntriesAll(x.head_elements), MostEntriesAll(x.body_elements)))
  ELSE IF x.kind = "ImageElement" THEN HashMapLen(x.attributes)
  ELSE IF x.kind = "ContainerElement"
    THEN Max(HashMapLen(x.attributes), MostEntriesAll(x.children))
  ELSE 0

\* C8 as stated: the two renderings are byte-identical
C8_TwinRendersIdentical ==
  is_some(twinOut) => twinOut[1][1] = twinOut[1][2]

\* C8 as amended: the two renderings are byte-identical when no Image or
\* Container holds two extra attributes and the document no two body
\* attributes; otherwise they still have the same length
C8_TwinRendersIdenticalUpToMapOrder ==
  is_some(twinOut) =>
    /\ MostEntries(left[1]) <= 1 => twinOut[1][1] = twinOut[1][2]
    /\ Len(twinOut[1][1]) = Len(twinOut[1][2])

C8_Witness ==
  /\ is_some(twinOut)
  /\ IsDocument(left[1])
  /\ HashMapLen(left[1].body_attributes) = 1
  /\ left[1].body_attributes.hasher # right[1].body_attributes.hasher
  /\ left[1].body_elements # <<>>
  /\ left[1].body_elements[1].kind = "ContainerElement"
  /\ HashMapLen(left[1].body_elements[1].attributes) = 1
  /\ left[1].body_elements[1].attributes.hasher # right[1].body_elements[1].attributes.hasher
  /\ left[1].body_elements[1].children # <<>>
  /\ left[1].body_elements[1].children[1].kind = "ImageElement"
  /\ HashMapLen(left[1].body_elements[1].children[1].attributes) = 1
  /\ twinOut[1][1] = twinOut[1][2]

----------------------------------------------------------------------------
(* SpecDoc: one document builder, its setters called in any order, then     *)
(* build()                                                                  *)

\* the elements callers add to the head
HeadElements == {RawHtmlNew(<<"<", "b", ">">>)}

\* the elements callers add to the body
BodyElements == {TextElementNew(<<"<", "'">>), RawHtmlNew(<<"<", "i", ">">>)}

Added(d) ==
  (Len(d.meta_tags) - 1) + Len(d.stylesheets) + Len(d.scripts)
  + Len(d.head_elements) + Len(d.body_elements)

DocInit ==
  /\ \E h \in KeyOrders : doc = Some(HtmlDocumentBuilderNew(h))
  /\ built = None
  /\ NoLeaf /\ NoNode /\ NoTree /\ NoTwin /\ NoSave

\* a setter: it consumes the builder and returns it changed
DocSet(d) ==
  /\ built = None
  /\ doc' = Some(d)
  /\ UNCHANGED <<built, leafVars, nodeVars, treeVars, twinVars, saveVars>>

DocTitle == \E s \in DocStrings : DocSet(title(doc[1], s))

DocLang == \E s \in DocStrings : DocSet(lang(doc[1], s))

DocAddMeta ==
  /\ Added(doc[1]) < MaxAdded
  /\ \E n \in MetaNames, s \in DocStrings : DocSet(add_meta(doc[1], n, s))

DocAddStylesheet ==
  /\ Added(doc[1]) < MaxAdded
  /\ \E s \in DocStrings : DocSet(add_stylesheet(doc[1], s))

DocAddHeadElement ==
  /\ Added(doc[1]) < MaxAdded
  /\ \E e \in HeadElements : DocSet(add_head_element(doc[1], e))

DocAddBodyElement ==
  /\ Added(doc[1]) < MaxAdded
  /\ \E e \in BodyElements : DocSet(add_body_element(doc[1], e))

DocAddScript ==
  /\ Added(doc[1]) < MaxAdded
  /\ \E s \in DocStrings : DocSet(add_script(doc[1], s))

DocAddBodyAttribute ==
  \E k \in Keys, s \in DocStrings : DocSet(add_body_attribute(doc[1], k, s))

\* build(self): the builder is consumed
DocBuild ==
  /\ built = None
  /\ built' = Some(build(doc[1]))
  /\ UNCHANGED <<doc, leafVars, nodeVars, treeVars, twinVars, saveVars>>

DocNext ==
  \/ DocTitle
  \/ DocLang
  \/ DocAddMeta
  \/ DocAddStylesheet
  \/ DocAddHeadElement
  \/ DocAddBodyElement
  \/ DocAddScript
  \/ DocAddBodyAttribute
  \/ DocBuild

SpecDoc == DocInit /\ [][DocNext]_vars

----------------------------------------------------------------------------
(* Claims checked under SpecDoc *)

RECURSIVE ExpectedMetas(_)
ExpectedMetas(ps) ==
  IF ps = <<>> THEN <<>>
  ELSE (IF Head(ps)[1] = <<"c", "h", "a", "r", "s", "e", "t">>
          THEN
               <<"<", "m", "e", "t", "a", " ", "c", "h", "a", "r", "s", "e", "t", "=",
                 "\"">>
               \o encode_attribute(Head(ps)[2])
          ELSE
               <<"<", "m", "e", "t", "a", " ", "n", "a", "m", "e", "=", "\"">>
               \o encode_attribute(Head(ps)[1])
               \o
               <<"\"", " ", "c", "o", "n", "t", "e", "n", "t", "=", "\"">>
               \o encode_attribute(Head(ps)[2]))
       \o <<"\"", ">", "\n">>
       \o ExpectedMetas(Tail(ps))

RECURSIVE ExpectedStylesheets(_)
ExpectedStylesheets(hs) ==
  IF hs = <<>> THEN <<>>
  ELSE
       <<"<", "l", "i", "n", "k", " ", "r", "e", "l", "=", "\"", "s", "t", "y", "l", "e",
         "s", "h", "e", "e", "t", "\"", " ", "h", "r", "e", "f", "=", "\"">>
       \o encode_attribute(Head(hs)) \o <<"\"", ">", "\n">>
       \o ExpectedStylesheets(Tail(hs))

RECURSIVE ExpectedScripts(_)
ExpectedScripts(ss) ==
  IF ss = <<>> THEN <<>>
  ELSE
       <<"<", "s", "c", "r", "i", "p", "t", " ", "s", "r", "c", "=", "\"">>
       \o encode_attribute(Head(ss))
       \o
       <<"\"", ">", "<", "/", "s", "c", "r", "i", "p", "t", ">", "\n">>
       \o ExpectedScripts(Tail(ss))

RECURSIVE ExpectedNodes(_)
ExpectedNodes(es) ==
  IF es = <<>> THEN <<>> ELSE render(Head(es)) \o <<"\n">> \o ExpectedNodes(Tail(es))

RECURSIVE ExpectedBodyAttributes(_, _)
ExpectedBodyAttributes(order, table) ==
  IF order = <<>> THEN <<>>
  ELSE (IF Head(order) \in DOMAIN table
          THEN <<" ">> \o encode_attribute(Head(order)) \o <<"=", "\"">>
               \o encode_attribute(table[Head(order)]) \o <<"\"">>
          ELSE <<>>)
       \o ExpectedBodyAttributes(Tail(order), table)

\* the document in the claimed order of sections
ExpectedDocument(d, order) ==
  <<"<", "!", "D", "O", "C", "T", "Y", "P", "E", " ", "h", "t", "m", "l", ">", "\n", "<",
    "h", "t", "m", "l", " ", "l", "a", "n", "g", "=", "\"">>
  \o encode_attribute(d.lang[1])
  \o
  <<"\"", ">", "\n", "<", "h", "e", "a", "d", ">", "\n">>
  \o ExpectedMetas(d.meta_tags)
  \o (IF d.title = <<>> THEN <<>>
      ELSE <<"<", "t", "i", "t", "l", "e", ">">> \o encode_text(d.title[1])
           \o <<"<", "/", "t", "i", "t", "l", "e", ">", "\n">>)
  \o ExpectedStylesheets(d.stylesheets)
  \o ExpectedNodes(d.head_elements)
  \o
  <<"<", "/", "h", "e", "a", "d", ">", "\n", "<", "b", "o", "d", "y">>
  \o ExpectedBodyAttributes(order, d.body_attributes.table)
  \o <<">", "\n">>
  \o ExpectedNodes(d.body_elements)
  \o ExpectedScripts(d.scripts)
  \o
  <<"<", "/", "b", "o", "d", "y", ">", "\n", "<", "/", "h", "t", "m", "l", ">">>

\* C9: whatever the order of the setter calls, build() writes the doctype,
\* the html tag, in head the meta tags (the default charset first), the
\* title, the stylesheets and the head nodes, in body the body nodes and then
\* the scripts, and the closing tags
C9_SectionsInFixedOrder ==
  is_some(built) =>
    /\ \E order \in KeyOrders : built[1] = ExpectedDocument(doc[1], order)
    /\ contains(built[1],
         <<"<", "h", "e", "a", "d", ">", "\n", "<", "m", "e", "t", "a", " ", "c", "h",
           "a", "r", "s", "e", "t", "=", "\"", "U", "T", "F", "-", "8", "\"", ">", "\n">>
         )

C9_Witness ==
  /\ is_some(built)
  /\ is_some(doc[1].title)
  /\ Len(doc[1].meta_tags) = 2
  /\ doc[1].meta_tags[2][1] = <<"a">>
  /\ doc[1].stylesheets # <<>>
  /\ doc[1].head_elements # <<>>
  /\ doc[1].body_elements # <<>>
  /\ doc[1].scripts # <<>>
  /\ HashMapLen(doc[1].body_attributes) = 2

----------------------------------------------------------------------------
(* SpecSave: save_html on a filesystem.  A path is the sequence of its      *)
(* components; the filesystem is the set of its directories and the         *)
(* contents of its files.  Any create_dir_all and any write may fail; some  *)
(* must.                                                                    *)

\* the paths callers save to: "", "f", "d/f", "d/e/f", "f/f"
SavePaths == {<<>>, <<"f">>, <<"d", "f">>, <<"d", "e", "f">>, <<"f", "f">>}

\* the contents callers save
Contents == {<<"a">>, <<"b", "\n">>}

\* Path::parent
parent(path) == IF path = <<>> THEN None ELSE Some(SubSeq(path, 1, Len(path) - 1))

\* the directories on the way to p, p included
Ancestors(p) == {SubSeq(p, 1, k) : k \in 1..Len(p)}

ProperPrefixes(s) == {SubSeq(s, 1, k) : k \in 0..(Len(s) - 1)}

\* std::fs::create_dir_all(p): whether it succeeded, and the directories then
CreateDirAllOutcomes(f, p) ==
  IF p = <<>> THEN {[ok |-> TRUE, dirs |-> f.dirs]}
  ELSE (IF \E a \in Ancestors(p) : a \in DOMAIN f.files
          THEN {}
          ELSE {[ok |-> TRUE, dirs |-> f.dirs \cup Ancestors(p)]})
       \cup {[ok |-> FALSE, dirs |-> f.dirs \cup Ancestors(q)] :
               q \in {x \in ProperPrefixes(p) : \A a \in Ancestors(x) : a \notin DOMAIN f.files}}

SetFile(files, path, content) ==
  [x \in (DOMAIN files) \cup {path} |-> IF x = path THEN content ELSE files[x]]

\* std::fs::write(path, content): whether it succeeded, and the files then
WriteOutcomes(f, path, content) ==
  IF path = <<>> \/ path \in f.dirs \/ \E a \in Ancestors(path) \ {path} : a \notin f.dirs
    THEN {[ok |-> FALSE, files |-> f.files]}
    ELSE {[ok |-> TRUE, files |-> SetFile(f.files, path, content)],
          [ok |-> FALSE, files |-> f.files]}
         \cup {[ok |-> FALSE, files |-> SetFile(f.files, path, part)] :
                 part \in ProperPrefixes(content)}

\* what one call did: the filesystem after it, the result it returned,
\* whether create_dir_all failed, and the calls it made
Outcome(f, result, dirFailed, mkdirs, writes) ==
  [fs |-> f, result |-> result, dirFailed |-> dirFailed, mkdirs |-> mkdirs, writes |-> writes]

\* the write, once create_dir_all is over
SaveWrite(f, path, content, dirFailed, mkdirs) ==
  {Outcome([f EXCEPT !.files = w.files], IF w.ok THEN "Ok" ELSE "ErrSave",
           dirFailed, mkdirs, 1) :
     w \in WriteOutcomes(f, path, content)}

\* save_html that goes on to the write when create_dir_all failed
SaveHtmlIgnoringCreateDirError(f, path, content) ==
  IF parent(path) = None THEN SaveWrite(f, path, content, FALSE, 0)
  ELSE UNION {SaveWrite([f EXCEPT !.dirs = m.dirs], path, content, ~m.ok, 1) :
                m \in CreateDirAllOutcomes(f, parent(path)[1])}

\* save_html: every outcome it can have on filesystem f
save_html(f, path, content) ==
  IF parent(path) = None THEN SaveWrite(f, path, content, FALSE, 0)
  ELSE UNION {IF m.ok
                THEN SaveWrite([f EXCEPT !.dirs = m.dirs], path, content, FALSE, 1)
                ELSE {Outcome([f EXCEPT !.dirs = m.dirs], "ErrCreateDir", TRUE, 1, 0)} :
                m \in CreateDirAllOutcomes(f, parent(path)[1])}

SaveInit ==
  /\ fs = [dirs |-> {}, files |-> <<>>]
  /\ saved = None
  /\ NoLeaf /\ NoNode /\ NoTree /\ NoTwin /\ NoDoc

\* one call of save_html; saved keeps its arguments, its result, the files
\* before it and the calls it made
SaveHtml ==
  /\ \E path \in SavePaths, content \in Contents :
       \E o \in save_html(fs, path, content) :
         /\ fs' = o.fs
         /\ saved' = Some([path |-> path, content |-> content, result |-> o.result,
                           before |-> fs.files, dirFailed |-> o.dirFailed,
                           mkdirs |-> o.mkdirs, writes |-> o.writes])
  /\ UNCHANGED <<leafVars, nodeVars, treeVars, twinVars, docVars>>

SaveNext == SaveHtml

SpecSave == SaveInit /\ [][SaveNext]_vars

----------------------------------------------------------------------------
(* Claims checked under SpecSave *)

\* C10: save_html returns Ok only with every parent directory there and the
\* file holding the content; when create_dir_all fails it returns an error,
\* writes nothing and leaves the files as they were; when the write fails it
\* returns an error; no call is made twice
C10_SaveCreatesThenWrites ==
  is_some(saved) =>
    LET s == saved[1] IN
      /\ s.result = "Ok" =>
           /\ s.path \in DOMAIN fs.files
           /\ fs.files[s.path] = s.content
           /\ (Ancestors(s.path) \ {s.path}) \subseteq fs.dirs
           /\ s.writes = 1
      /\ s.dirFailed =>
           /\ s.result = "ErrCreateDir"
           /\ s.writes = 0
           /\ fs.files = s.before
      /\ s.result = "ErrCreateDir" => s.dirFailed
      /\ s.result = "ErrSave" => s.writes = 1
      /\ s.mkdirs <= 1 /\ s.writes <= 1
      /\ s.result \in {"Ok", "ErrCreateDir", "ErrSave"}

C10_Witness ==
  /\ is_some(saved)
  /\ saved[1].result = "ErrCreateDir"
  /\ saved[1].path = <<"d", "e", "f">>
  /\ saved[1].path \in DOMAIN saved[1].before
  /\ saved[1].before[saved[1].path] # saved[1].content
  /\ fs.files[saved[1].path] = saved[1].before[saved[1].path]

============================================================================
